---- MODULE Spec2Model ----
(***************************************************************************)
(* State-machine model of the authentication backend: the OTP service      *)
(* (createOtpForUser / verifyUserOtp), the session service                 *)
(* (createSessionForUser / validateSession / destroySession /              *)
(* destroyAllSessionsForUser), the request validation middleware and the   *)
(* auth controller (validateCredentials / sendOtp / finalLogin /           *)
(* loginController).                                                       *)
(*                                                                         *)
(* Time is a discrete clock of ticks.  The OTP clock counts its ticks as    *)
(* 'minutes' and the session clock counts the same ticks as 'hours'; zone  *)
(* offsets are whole ticks.                                                *)
(* A TIMESTAMP column holds a zoneless wall-clock reading, so every value  *)
(* written to or read from the store goes through an explicit conversion.  *)
(***************************************************************************)
EXTENDS Integers, Sequences, FiniteSets, TLC

(***************************************************************************)
(* Bounds of the model                                                     *)
(***************************************************************************)
MaxTime == 2
MaxOtps == 2
MaxSessions == 2
MaxInflight == 2
\* configured values of OTP_TTL_MINUTES and SESSION_TTL_HOURS
ttlMinutes == 1
ttlHours == 1
\* largest OTP_TTL_MINUTES a deployment is configured with
MaxTtl == 2

(***************************************************************************)
(* JavaScript / SQL values                                                 *)
(***************************************************************************)
Undefined == "undefined"
NULL == "null"

Falsy(v) == v \in {Undefined, NULL, ""}

\* a || b
Or(a, b) == IF Falsy(a) THEN b ELSE a

\* a value bound to a query parameter: undefined is sent as NULL
SqlParam(v) == IF v = Undefined THEN NULL ELSE v

\* SQL '=' is never true when either side is NULL
SqlEq(a, b) == a # NULL /\ b # NULL /\ a = b

\* String(x).trim()
Trim(s) == CASE s = " 4821 " -> "4821"
             [] s = " 1000 " -> "1000"
             [] OTHER -> s

\* String(x) of a boolean column value
StringOf(b) == IF b = TRUE THEN "true" ELSE "false"

(***************************************************************************)
(* Time zones and moment-timezone                                          *)
(***************************************************************************)
Zones == {"UTC", "Asia/Kolkata"}

ZoneOffset(zone) == CASE zone = "UTC" -> 0
                      [] zone = "Asia/Kolkata" -> 1

UnitTicks(unit) == CASE unit = "minutes" -> 1
                     [] unit = "hours" -> 1

\* moment(instant).tz(zone)
MomentTz(instant, zone) == [t |-> instant, zone |-> zone]

\* m.clone().add(n, unit)
MomentAdd(m, n, unit) == [m EXCEPT !.t = @ + n * UnitTicks(unit)]

\* m.toDate(): the absolute instant
MomentToDate(m) == m.t

\* a.isAfter(b)
MomentIsAfter(a, b) == a.t > b.t

\* m.format('YYYY-MM-DD HH:mm:ss'): the wall-clock reading in m's zone, no zone suffix
MomentFormat(m) == m.t + ZoneOffset(m.zone)

VARIABLES
  now,            \* the current instant
  users,          \* table users (owned by the identity store), by user_id
  timezone,       \* config.timezone
  processZone,    \* local zone of the server process / database session
  nodeEnv,        \* process.env.NODE_ENV
  otpTtlMinutes,  \* config.otp.ttlMinutes
  users_otps,     \* table users_otps, in insertion (created_at) order
  user_sessions,  \* table user_sessions; session ids are 1..Len
  inflight,       \* finalLogin requests suspended between verifyUserOtp and createSessionForUser
  response,       \* the response of the operation that has just completed
  delivery,       \* what the operation that has just completed did on each delivery channel
  revoked         \* history: ids of the sessions a destroy call has acted on

vars == <<now, users, timezone, processZone, nodeEnv, otpTtlMinutes, users_otps, user_sessions,
          inflight, response, delivery, revoked>>

\* node-pg writes a JS Date to a TIMESTAMP column as the process-local wall clock
PgWriteDate(instant) == instant + ZoneOffset(processZone)

\* a zoneless string is stored in a TIMESTAMP column as it is
PgWriteString(wall) == wall

\* node-pg reads a TIMESTAMP column as a Date in the process-local zone
PgReadTimestamp(wall) == wall - ZoneOffset(processZone)

(***************************************************************************)
(* Identity store (read-only collaborator)                                 *)
(***************************************************************************)
Bcrypt(p) == [prefix |-> "$2b$", digest |-> p]
Plain(p) == [prefix |-> "", digest |-> p]

UserIds == {"u1", "u2"}

\* the identities at start: u1 has a phone and a legacy plain-text password,
\* u2 has no phone and a bcrypt hash
InitialUsers ==
  [id \in UserIds |->
     IF id = "u1"
     THEN [user_id |-> "u1", email |-> "a@x.com", phone |-> "p1", password_hash |-> Plain("pw1"),
           role |-> "USER", is_active |-> TRUE]
     ELSE [user_id |-> "u2", email |-> "b@x.com", phone |-> NULL, password_hash |-> Bcrypt("pw1"),
           role |-> "USER", is_active |-> TRUE]]

NoUser == [user_id |-> "none", email |-> NULL, phone |-> NULL, password_hash |-> Plain(NULL),
           role |-> NULL, is_active |-> FALSE]

findUserByEmailAndRole(email, role) ==
  LET found == {id \in UserIds : SqlEq(users[id].email, SqlParam(email))
                                 /\ SqlEq(users[id].role, SqlParam(role))}
  IN IF found = {} THEN NoUser ELSE users[CHOOSE id \in found : TRUE]

findUserByMobileAndRole(mobile, role) ==
  LET found == {id \in UserIds : SqlEq(users[id].phone, SqlParam(mobile))
                                 /\ SqlEq(users[id].role, SqlParam(role))}
  IN IF found = {} THEN NoUser ELSE users[CHOOSE id \in found : TRUE]

(***************************************************************************)
(* Responses                                                               *)
(***************************************************************************)
\* The fields of a response the properties read.  user_id is the identity the
\* handler resolved ("none" when no lookup ran or nothing matched); otp is the
\* code an issuance returns; otp_id is the row verifyUserOtp accepted; reason is
\* the ${reason} of 'Invalid OTP: ${reason}' or validateSession's reason; target
\* is the phone a direct call of verifyUserOtp was given.
Resp(op, status, message) ==
  [op |-> op, status |-> status, message |-> message, user_id |-> "none",
   otp |-> Undefined, otp_id |-> 0, session_id |-> 0, valid |-> FALSE, reason |-> "",
   target |-> Undefined]

NoResponse == Resp("none", 0, "")

successResponse(op, statusCode, message, user, otp, otpId, sessionId) ==
  [Resp(op, statusCode, message) EXCEPT !.user_id = user.user_id, !.otp = otp,
                                         !.otp_id = otpId, !.session_id = sessionId]

errorResponse(op, statusCode, message, user, reason) ==
  [Resp(op, statusCode, message) EXCEPT !.user_id = user.user_id, !.reason = reason]

(***************************************************************************)
(* OTP service                                                             *)
(***************************************************************************)
\* generateOtp(): a 4-digit string
Codes == {"1000", "4821"}

\* Number(config.otp.ttlMinutes || 30)
OtpTtl == IF otpTtlMinutes = 0 THEN 30 ELSE otpTtlMinutes

\* faulty variant: the TTL is subtracted instead of added
createOtpForUser_TtlSubtracted(user, explicitMobile, otpType, otpCode) ==
  LET nowLocal == MomentTz(now, timezone)
      expiresLocal == MomentAdd(nowLocal, 0 - OtpTtl, "minutes")
      expiresUTC == MomentToDate(MomentTz(expiresLocal.t, "UTC"))
      mobile == Or(explicitMobile, user.phone)
  IN [user_id |-> user.user_id, phone |-> SqlParam(mobile), otp_code |-> otpCode,
      otp_type |-> otpType, expires_at |-> PgWriteDate(expiresUTC), is_used |-> FALSE,
      attempts_count |-> 0, email |-> user.email]

\* the row createOtpForUser inserts
createOtpForUser(user, explicitMobile, otpType, otpCode) ==
  LET nowLocal == MomentTz(now, timezone)
      expiresLocal == MomentAdd(nowLocal, OtpTtl, "minutes")
      expiresUTC == MomentToDate(MomentTz(expiresLocal.t, "UTC"))
      mobile == Or(explicitMobile, user.phone)
  IN [user_id |-> user.user_id, phone |-> SqlParam(mobile), otp_code |-> otpCode,
      otp_type |-> otpType, expires_at |-> PgWriteDate(expiresUTC), is_used |-> FALSE,
      attempts_count |-> 0, email |-> user.email]

\* faulty variant: the rows are not restricted to the user
OtpRowsFor_AnyUser(userId, mobile) ==
  {i \in DOMAIN users_otps :
     /\ SqlEq(users_otps[i].phone, SqlParam(mobile))
     /\ users_otps[i].otp_type = "LOGIN"}

\* faulty variant: the rows are not restricted to the LOGIN purpose
OtpRowsFor_AnyPurpose(userId, mobile) ==
  {i \in DOMAIN users_otps :
     /\ SqlEq(users_otps[i].user_id, SqlParam(userId))
     /\ SqlEq(users_otps[i].phone, SqlParam(mobile))}

\* where user_id=$1 and phone=$2 and otp_type='LOGIN'
OtpRowsFor(userId, mobile) ==
  {i \in DOMAIN users_otps :
     /\ SqlEq(users_otps[i].user_id, SqlParam(userId))
     /\ SqlEq(users_otps[i].phone, SqlParam(mobile))
     /\ users_otps[i].otp_type = "LOGIN"}

\* faulty variant: the oldest row is taken
LatestOtp_Oldest(userId, mobile) ==
  CHOOSE i \in OtpRowsFor(userId, mobile) : \A j \in OtpRowsFor(userId, mobile) : i <= j

\* order by created_at desc limit 1
LatestOtp(userId, mobile) ==
  CHOOSE i \in OtpRowsFor(userId, mobile) : \A j \in OtpRowsFor(userId, mobile) : j <= i

OtpVerdict(valid, reason, otpId) == [valid |-> valid, reason |-> reason, otp_id |-> otpId]

\* faulty variant: the expiry is looked at before the used flag
verifyUserOtp_ExpiryFirst(userId, mobile, otp) ==
  IF OtpRowsFor(userId, mobile) = {} THEN OtpVerdict(FALSE, "otp_not_found", 0)
  ELSE LET id == LatestOtp(userId, mobile)
           row == users_otps[id]
           nowLocal == MomentTz(now, timezone)
           expiresLocal == MomentTz(PgReadTimestamp(row.expires_at), timezone)
       IN IF MomentIsAfter(nowLocal, expiresLocal) THEN OtpVerdict(FALSE, "otp_expired", id)
          ELSE IF row.is_used THEN OtpVerdict(FALSE, "otp_used", id)
          ELSE IF Trim(row.otp_code) # Trim(otp) THEN OtpVerdict(FALSE, "otp_mismatch", id)
          ELSE OtpVerdict(TRUE, "", id)

verifyUserOtp(userId, mobile, otp) ==
  IF OtpRowsFor(userId, mobile) = {} THEN OtpVerdict(FALSE, "otp_not_found", 0)
  ELSE LET id == LatestOtp(userId, mobile)
           row == users_otps[id]
           nowLocal == MomentTz(now, timezone)
           expiresLocal == MomentTz(PgReadTimestamp(row.expires_at), timezone)
       IN IF row.is_used THEN OtpVerdict(FALSE, "otp_used", id)
          ELSE IF MomentIsAfter(nowLocal, expiresLocal) THEN OtpVerdict(FALSE, "otp_expired", id)
          ELSE IF Trim(row.otp_code) # Trim(otp) THEN OtpVerdict(FALSE, "otp_mismatch", id)
          ELSE OtpVerdict(TRUE, "", id)

(***************************************************************************)
(* Session service                                                         *)
(***************************************************************************)
\* the row createSessionForUser inserts; created_at is bound to the same
\* parameter ($6) as expires_at
createSessionForUser(sessionId, userId, token) ==
  LET utcTime == now
      expiresAt == MomentFormat(MomentAdd(MomentTz(utcTime, timezone), ttlHours, "hours"))
      lastActivity == now
  IN [session_id |-> sessionId, user_id |-> userId, jwt_token |-> token,
      expires_at |-> PgWriteString(expiresAt), last_activity_at |-> lastActivity,
      created_at |-> PgWriteString(expiresAt), is_active |-> TRUE]

SessionVerdict(valid, reason) == [valid |-> valid, reason |-> reason]

\* faulty variant: the expiry comparison is strict
validateSession_StrictExpiry(sessionId) ==
  IF sessionId \notin DOMAIN user_sessions THEN SessionVerdict(FALSE, "not_found")
  ELSE LET session == user_sessions[sessionId]
       IN IF ~session.is_active THEN SessionVerdict(FALSE, "inactive")
          ELSE IF PgReadTimestamp(session.expires_at) < now THEN SessionVerdict(FALSE, "expired")
          ELSE SessionVerdict(TRUE, "")

validateSession(sessionId) ==
  IF sessionId \notin DOMAIN user_sessions THEN SessionVerdict(FALSE, "not_found")
  ELSE LET session == user_sessions[sessionId]
       IN IF ~session.is_active THEN SessionVerdict(FALSE, "inactive")
          ELSE IF PgReadTimestamp(session.expires_at) <= now THEN SessionVerdict(FALSE, "expired")
          ELSE SessionVerdict(TRUE, "")

\* faulty variant: the update touches last_activity_at only
RevokedRow_KeepsActive(row) == [row EXCEPT !.last_activity_at = now]

\* faulty variant: the update flips the flag instead of clearing it
RevokedRow_Toggles(row) == [row EXCEPT !.is_active = ~@, !.last_activity_at = now]

\* UPDATE ... SET is_active = false, last_activity_at = NOW()
RevokedRow(row) == [row EXCEPT !.is_active = FALSE, !.last_activity_at = now]

\* faulty variant: the row is deleted instead of updated
destroySession_Deletes(sessionId) ==
  SelectSeq(user_sessions, LAMBDA row : row.session_id # sessionId)

destroySession(sessionId) ==
  [i \in DOMAIN user_sessions |->
     IF user_sessions[i].session_id = sessionId THEN RevokedRow(user_sessions[i])
     ELSE user_sessions[i]]

\* faulty variant: the update has no where clause
destroyAllSessionsForUser_Everyone(userId) ==
  [i \in DOMAIN user_sessions |-> RevokedRow(user_sessions[i])]

destroyAllSessionsForUser(userId) ==
  [i \in DOMAIN user_sessions |->
     IF user_sessions[i].user_id = userId THEN RevokedRow(user_sessions[i])
     ELSE user_sessions[i]]

(***************************************************************************)
(* Request bodies                                                          *)
(***************************************************************************)
EmailsIn == {"a@x.com", "b@x.com", Undefined}
MobilesIn == {"p1", "p9", Undefined}
RolesIn == {"USER", "ADMIN", Undefined}
PasswordsIn == {"pw1", "bad"}
OtpsIn == {"1000", " 4821 "}
StepsIn == {"credential_validation", "send_otp", "final_login", "bogus", Undefined}

EmptyBody ==
  [step |-> Undefined, login_type |-> Undefined, email |-> Undefined, password |-> Undefined,
   role |-> Undefined, mobile |-> Undefined, otp |-> Undefined]

\* well-formed bodies, and bodies with one field absent or of the wrong kind
CredentialBodies ==
  {[EmptyBody EXCEPT !.login_type = "email_password", !.email = e, !.password = p, !.role = "USER"] :
     e \in EmailsIn, p \in PasswordsIn}
  \cup
  {[EmptyBody EXCEPT !.login_type = lt, !.email = "a@x.com", !.password = "pw1", !.role = r] :
     lt \in {"email_password", "sms", Undefined}, r \in RolesIn}
  \cup
  {[EmptyBody EXCEPT !.login_type = "email_password", !.email = "a@x.com", !.role = "USER"]}

SendOtpBodies ==
  {[EmptyBody EXCEPT !.login_type = "mobile", !.mobile = m, !.role = "USER"] : m \in MobilesIn}
  \cup
  {[EmptyBody EXCEPT !.login_type = lt, !.mobile = "p1", !.role = r] :
     lt \in {"mobile", "sms", Undefined}, r \in RolesIn}

FinalLoginBodies ==
  {[EmptyBody EXCEPT !.email = e, !.mobile = m, !.role = "USER", !.otp = o] :
     e \in EmailsIn, m \in MobilesIn, o \in OtpsIn}
  \cup
  {[EmptyBody EXCEPT !.email = "a@x.com", !.role = r, !.otp = " 4821 "] : r \in RolesIn}
  \cup
  {[EmptyBody EXCEPT !.email = "a@x.com", !.role = "USER"]}

(***************************************************************************)
(* Validation middleware: the errors each validator collects              *)
(***************************************************************************)
Collect(flags) == SelectSeq(flags, LAMBDA e : e # "")

validateCredentialValidation(body) ==
  Collect(<< IF Falsy(body.login_type) \/ body.login_type # "email_password"
               THEN "login_type must be email_password" ELSE "",
             IF Falsy(body.email) THEN "email is required" ELSE "",
             IF Falsy(body.password) THEN "password is required" ELSE "",
             IF Falsy(body.role) THEN "role is required" ELSE "" >>)

validateSendOtp(body) ==
  Collect(<< IF Falsy(body.login_type) \/ body.login_type # "mobile"
               THEN "login_type must be mobile" ELSE "",
             IF Falsy(body.mobile) THEN "mobile is required" ELSE "",
             IF Falsy(body.role) THEN "role is required" ELSE "" >>)

validateFinalLogin(body) ==
  Collect(<< IF Falsy(body.role) THEN "role is required" ELSE "",
             IF Falsy(body.otp) THEN "otp is required" ELSE "",
             IF Falsy(body.email) /\ Falsy(body.mobile) THEN "email or mobile is required" ELSE "" >>)

(***************************************************************************)
(* Auth controller                                                         *)
(***************************************************************************)
\* faulty variant: the active flag is not looked at
isUserActive_IgnoresFlag(user) == user # NoUser

isUserActive(user) == user # NoUser /\ Trim(StringOf(user.is_active)) = "true"

BcryptPrefixes == {"$2a$", "$2b$", "$2y$"}

verifyPassword(plainPassword, hashedPassword) ==
  IF hashedPassword.digest # NULL /\ hashedPassword.prefix \in BcryptPrefixes
  THEN plainPassword = hashedPassword.digest
  ELSE hashedPassword.prefix = "" /\ plainPassword = hashedPassword.digest

\* signJwt(claims): the token stands for the claims it embeds
signJwt(user) == [user_id |-> user.user_id, email |-> user.email, role |-> user.role]

\* sendOtpViaSMS / sendOtpViaEmail either resolve or reject
DeliveryOutcomes == {"sent", "failed"}

\* no delivery channel was tried
NoDelivery == [sms |-> "none", email |-> "none"]

\* faulty variant: a rejected SMS keeps the email from being tried
Deliver_SmsFailureAborts(mobile, email, smsOutcome, emailOutcome) ==
  [sms |-> IF Falsy(mobile) THEN "none" ELSE smsOutcome,
   email |-> IF Falsy(email) \/ (~Falsy(mobile) /\ smsOutcome = "failed") THEN "none"
             ELSE emailOutcome]

\* createOtpForUser after the insert: a channel is tried when its target is
\* present; a rejection is caught and logged
Deliver(mobile, email, smsOutcome, emailOutcome) ==
  [sms |-> IF Falsy(mobile) THEN "none" ELSE smsOutcome,
   email |-> IF Falsy(email) THEN "none" ELSE emailOutcome]

\* a handler that answers without touching a store
Answer(r) ==
  /\ response' = r
  /\ delivery' = NoDelivery
  /\ UNCHANGED <<users_otps, user_sessions, inflight, revoked>>

\* a handler that inserts an OTP row and answers
IssueAndAnswer(op, message, user, explicitMobile) ==
  /\ Len(users_otps) < MaxOtps
  /\ \E otpCode \in Codes :
       /\ users_otps' = Append(users_otps, createOtpForUser(user, explicitMobile, "LOGIN", otpCode))
       /\ response' = successResponse(op, 200, message, user, otpCode, 0, 0)
  /\ \E smsOutcome, emailOutcome \in DeliveryOutcomes :
       delivery' = Deliver(Or(explicitMobile, user.phone), user.email, smsOutcome, emailOutcome)
  /\ UNCHANGED <<user_sessions, inflight, revoked>>

\* faulty variant: the code is issued before the password is compared
validateCredentials_IssuesBeforePassword(body) ==
  LET user == findUserByEmailAndRole(body.email, body.role)
  IN IF ~isUserActive(user)
     THEN Answer(errorResponse("credential_validation", 401, "Invalid user credentials", user, ""))
     ELSE IF ~verifyPassword(body.password, user.password_hash)
     THEN /\ Len(users_otps) < MaxOtps
          /\ \E otpCode \in Codes :
               users_otps' = Append(users_otps, createOtpForUser(user, Undefined, "LOGIN", otpCode))
          /\ response' = errorResponse("credential_validation", 401, "Invalid user credentials", user, "")
          /\ delivery' = Deliver(user.phone, user.email, "sent", "sent")
          /\ UNCHANGED <<user_sessions, inflight, revoked>>
     ELSE IssueAndAnswer("credential_validation", "Valid details. OTP sent", user, Undefined)

\* faulty variant: an unknown identity gets an answer of its own
validateCredentials_RevealsAbsent(body) ==
  LET user == findUserByEmailAndRole(body.email, body.role)
  IN IF user = NoUser
     THEN Answer(errorResponse("credential_validation", 404, "User not found", user, ""))
     ELSE IF ~isUserActive(user)
     THEN Answer(errorResponse("credential_validation", 401, "Invalid user credentials", user, ""))
     ELSE IF ~verifyPassword(body.password, user.password_hash)
     THEN Answer(errorResponse("credential_validation", 401, "Invalid user credentials", user, ""))
     ELSE IssueAndAnswer("credential_validation", "Valid details. OTP sent", user, Undefined)

validateCredentials(body) ==
  LET user == findUserByEmailAndRole(body.email, body.role)
  IN IF ~isUserActive(user)
     THEN Answer(errorResponse("credential_validation", 401, "Invalid user credentials", user, ""))
     ELSE IF ~verifyPassword(body.password, user.password_hash)
     THEN Answer(errorResponse("credential_validation", 401, "Invalid user credentials", user, ""))
     ELSE IssueAndAnswer("credential_validation", "Valid details. OTP sent", user, Undefined)

sendOtp(body) ==
  LET user == findUserByMobileAndRole(body.mobile, body.role)
  IN IF ~isUserActive(user)
     THEN Answer(errorResponse("send_otp", 401, "Invalid user credentials", user, ""))
     ELSE IssueAndAnswer("send_otp", "OTP sent", user, body.mobile)

\* faulty variant: the identity is looked up by mobile only
FinalLoginUser_MobileOnly(body) ==
  IF ~Falsy(body.mobile) THEN findUserByMobileAndRole(body.mobile, body.role)
  ELSE NoUser

FinalLoginUser(body) ==
  IF ~Falsy(body.email) THEN findUserByEmailAndRole(body.email, body.role)
  ELSE IF ~Falsy(body.mobile) THEN findUserByMobileAndRole(body.mobile, body.role)
  ELSE NoUser

\* faulty variant: the stored phone is not taken as the target
FinalLoginCheck_IgnoresStoredPhone(body) ==
  LET user == FinalLoginUser(body)
      mobileToUse == body.mobile
      verdict == verifyUserOtp(user.user_id, mobileToUse, body.otp)
  IN IF ~isUserActive(user)
     THEN errorResponse("final_login", 401, "Invalid user credentials", user, "")
     ELSE IF Falsy(mobileToUse)
     THEN errorResponse("final_login", 400, "Mobile number is required for OTP verification", user, "")
     ELSE IF ~verdict.valid
     THEN errorResponse("final_login", 401, "Invalid OTP", user, verdict.reason)
     ELSE Resp("final_login", 0, "")

\* finalLogin up to and including verifyUserOtp: the error it answers with,
\* or status 0 when it goes on to sign the token and create the session
FinalLoginCheck(body) ==
  LET user == FinalLoginUser(body)
      mobileToUse == Or(body.mobile, user.phone)
      verdict == verifyUserOtp(user.user_id, mobileToUse, body.otp)
  IN IF ~isUserActive(user)
     THEN errorResponse("final_login", 401, "Invalid user credentials", user, "")
     ELSE IF Falsy(mobileToUse)
     THEN errorResponse("final_login", 400, "Mobile number is required for OTP verification", user, "")
     ELSE IF ~verdict.valid
     THEN errorResponse("final_login", 401, "Invalid OTP", user, verdict.reason)
     ELSE Resp("final_login", 0, "")

finalLogin(body) ==
  LET user == FinalLoginUser(body)
      check == FinalLoginCheck(body)
  IN IF check.status # 0
     THEN Answer(check)
     ELSE /\ Len(inflight) < MaxInflight
          /\ inflight' = Append(inflight,
               [user |-> user,
                otp_id |-> verifyUserOtp(user.user_id, Or(body.mobile, user.phone), body.otp).otp_id])
          /\ response' = NoResponse
          /\ delivery' = NoDelivery
          /\ UNCHANGED <<users_otps, user_sessions, revoked>>

\* finalLogin after verifyUserOtp returned valid: signJwt, createSessionForUser, answer
finalLoginCreateSession(i) ==
  LET req == inflight[i]
      sessionId == Len(user_sessions) + 1
      token == signJwt(req.user)
  IN /\ Len(user_sessions) < MaxSessions
     /\ user_sessions' = Append(user_sessions, createSessionForUser(sessionId, req.user.user_id, token))
     /\ inflight' = SubSeq(inflight, 1, i - 1) \o SubSeq(inflight, i + 1, Len(inflight))
     /\ response' = successResponse("final_login", 200, "Login successful", req.user, Undefined, req.otp_id, sessionId)
     /\ delivery' = NoDelivery
     /\ UNCHANGED <<users_otps, revoked>>

\* what finalLogin answers when it runs to completion with no other request in between
FinalLoginAnswer(body) ==
  LET user == FinalLoginUser(body)
      check == FinalLoginCheck(body)
      otpId == verifyUserOtp(user.user_id, Or(body.mobile, user.phone), body.otp).otp_id
  IN IF check.status # 0 THEN check
     ELSE successResponse("final_login", 200, "Login successful", user, Undefined, otpId,
                          Len(user_sessions) + 1)

\* finalLogin run to completion with no other request in between
finalLoginWhole(body) ==
  LET user == FinalLoginUser(body)
      answer == FinalLoginAnswer(body)
  IN IF answer.status # 200
     THEN Answer(answer)
     ELSE /\ Len(user_sessions) < MaxSessions
          /\ user_sessions' = Append(user_sessions,
                                     createSessionForUser(answer.session_id, user.user_id, signJwt(user)))
          /\ response' = answer
          /\ delivery' = NoDelivery
          /\ UNCHANGED <<users_otps, inflight, revoked>>

\* faulty variant: send_otp is dispatched to the first operation
loginController_SendOtpToCredentials(body) ==
  IF Falsy(body.step) THEN Answer(Resp("login", 400, "step is required"))
  ELSE CASE body.step = "credential_validation" -> validateCredentials(body)
         [] body.step = "send_otp" -> validateCredentials(body)
         [] body.step = "final_login" -> finalLogin(body)
         [] OTHER -> Answer(Resp("login", 400, "Unknown step: " \o body.step))

\* faulty variant: an unknown step falls through to the first operation
loginController_FallsThrough(body) ==
  IF Falsy(body.step) THEN Answer(Resp("login", 400, "step is required"))
  ELSE CASE body.step = "send_otp" -> sendOtp(body)
         [] body.step = "final_login" -> finalLogin(body)
         [] OTHER -> validateCredentials(body)

loginController(body) ==
  IF Falsy(body.step) THEN Answer(Resp("login", 400, "step is required"))
  ELSE CASE body.step = "credential_validation" -> validateCredentials(body)
         [] body.step = "send_otp" -> sendOtp(body)
         [] body.step = "final_login" -> finalLogin(body)
         [] OTHER -> Answer(Resp("login", 400, "Unknown step: " \o body.step))

\* a route: the validation middleware, then the handler
Route(op, errors, handler) ==
  IF Len(errors) > 0 THEN Answer(Resp(op, 400, "Validation failed")) ELSE handler

(***************************************************************************)
(* The state machine                                                       *)
(***************************************************************************)
SessionIds == 1..MaxSessions

NodeEnvs == {"development", "production"}

\* the stores and the clock at start-up
InitStores ==
  /\ now = 0
  /\ users = InitialUsers
  /\ users_otps = <<>>
  /\ user_sessions = <<>>
  /\ inflight = <<>>
  /\ response = NoResponse
  /\ delivery = NoDelivery
  /\ revoked = {}

\* a production deployment with OTP_TTL_MINUTES = ttlMinutes, in any zone
Init ==
  /\ InitStores
  /\ timezone \in Zones
  /\ processZone \in Zones
  /\ nodeEnv = "production"
  /\ otpTtlMinutes = ttlMinutes

\* POST /api/auth/validate-credentials
PostValidateCredentials ==
  /\ \E body \in CredentialBodies :
       Route("credential_validation", validateCredentialValidation(body), validateCredentials(body))
  /\ UNCHANGED <<now, users, timezone, processZone, nodeEnv, otpTtlMinutes>>

\* POST /api/auth/send-otp
PostSendOtp ==
  /\ \E body \in SendOtpBodies : Route("send_otp", validateSendOtp(body), sendOtp(body))
  /\ UNCHANGED <<now, users, timezone, processZone, nodeEnv, otpTtlMinutes>>

\* POST /api/auth/final-login
PostFinalLogin ==
  /\ \E body \in FinalLoginBodies : Route("final_login", validateFinalLogin(body), finalLogin(body))
  /\ UNCHANGED <<now, users, timezone, processZone, nodeEnv, otpTtlMinutes>>

\* POST /api/auth/login
PostLogin ==
  /\ \E step \in StepsIn :
       \E b \in (IF step = "credential_validation" THEN CredentialBodies
                 ELSE IF step = "send_otp" THEN SendOtpBodies
                 ELSE IF step = "final_login" THEN FinalLoginBodies
                 ELSE {EmptyBody}) :
          loginController([b EXCEPT !.step = step])
  /\ UNCHANGED <<now, users, timezone, processZone, nodeEnv, otpTtlMinutes>>

\* a suspended finalLogin resumes after verifyUserOtp
FinalLoginResume ==
  /\ \E i \in DOMAIN inflight : finalLoginCreateSession(i)
  /\ UNCHANGED <<now, users, timezone, processZone, nodeEnv, otpTtlMinutes>>

\* the state destroySession finds the session in (recorded for the properties;
\* destroySession itself returns nothing)
SessionStateOf(sessionId) ==
  IF sessionId \notin DOMAIN user_sessions THEN "no_such_session"
  ELSE IF user_sessions[sessionId].is_active THEN "was_active"
  ELSE "was_inactive"

\* faulty variant: validating an active session renews its expiry
SessionsAfterValidate_RenewsExpiry(sessionId) ==
  IF sessionId \in DOMAIN user_sessions /\ user_sessions[sessionId].is_active
  THEN [user_sessions EXCEPT ![sessionId].expires_at =
          PgWriteString(MomentFormat(MomentAdd(MomentTz(now, timezone), ttlHours, "hours")))]
  ELSE user_sessions

\* faulty variant: a valid session's last activity is refreshed
SessionsAfterValidate_TouchesActivity(sessionId) ==
  IF validateSession(sessionId).valid
  THEN [user_sessions EXCEPT ![sessionId].last_activity_at = now]
  ELSE user_sessions

\* user_sessions after validateSession: its one statement is a select
SessionsAfterValidate(sessionId) == user_sessions

ValidateSession ==
  /\ \E sessionId \in SessionIds :
       LET verdict == validateSession(sessionId)
       IN /\ response' = [Resp("validate", 0, "") EXCEPT !.session_id = sessionId,
                                                         !.valid = verdict.valid,
                                                         !.reason = verdict.reason]
          /\ user_sessions' = SessionsAfterValidate(sessionId)
  /\ delivery' = NoDelivery
  /\ UNCHANGED <<now, users, timezone, processZone, nodeEnv, otpTtlMinutes, users_otps, inflight, revoked>>

DestroySession ==
  /\ \E sessionId \in SessionIds :
       /\ user_sessions' = destroySession(sessionId)
       /\ revoked' = revoked \cup ({sessionId} \cap DOMAIN user_sessions)
       /\ response' = [Resp("revoke", 0, "") EXCEPT !.session_id = sessionId,
                                                    !.reason = SessionStateOf(sessionId)]
  /\ delivery' = NoDelivery
  /\ UNCHANGED <<now, users, timezone, processZone, nodeEnv, otpTtlMinutes, users_otps, inflight>>

DestroyAllSessionsForUser ==
  /\ \E userId \in UserIds :
       /\ user_sessions' = destroyAllSessionsForUser(userId)
       /\ revoked' = revoked \cup {i \in DOMAIN user_sessions : user_sessions[i].user_id = userId}
       /\ response' = [Resp("revokeAll", 0, "") EXCEPT !.user_id = userId]
  /\ delivery' = NoDelivery
  /\ UNCHANGED <<now, users, timezone, processZone, nodeEnv, otpTtlMinutes, users_otps, inflight>>

\* time passes
Tick ==
  /\ now < MaxTime
  /\ now' = now + 1
  /\ response' = NoResponse
  /\ delivery' = NoDelivery
  /\ UNCHANGED <<users, timezone, processZone, nodeEnv, otpTtlMinutes, users_otps, user_sessions, inflight, revoked>>

\* the identity store deactivates an account
DeactivateUser ==
  /\ \E id \in UserIds :
       /\ users[id].is_active
       /\ users' = [users EXCEPT ![id].is_active = FALSE]
  /\ response' = NoResponse
  /\ delivery' = NoDelivery
  /\ UNCHANGED <<now, timezone, processZone, nodeEnv, otpTtlMinutes, users_otps, user_sessions, inflight, revoked>>

Next ==
  \/ PostValidateCredentials
  \/ PostSendOtp
  \/ PostFinalLogin
  \/ PostLogin
  \/ FinalLoginResume
  \/ ValidateSession
  \/ DestroySession
  \/ DestroyAllSessionsForUser
  \/ DeactivateUser
  \/ Tick

Spec == Init /\ [][Next]_vars

\* createSessionForUser called for an identity, as finalLogin calls it
CreateSession ==
  /\ Len(user_sessions) < MaxSessions
  /\ \E id \in UserIds :
       LET user == users[id]
           sessionId == Len(user_sessions) + 1
       IN /\ user_sessions' = Append(user_sessions,
                                     createSessionForUser(sessionId, user.user_id, signJwt(user)))
          /\ response' = successResponse("create_session", 0, "", user, Undefined, 0, sessionId)
  /\ delivery' = NoDelivery
  /\ UNCHANGED <<now, users, timezone, processZone, nodeEnv, otpTtlMinutes, users_otps, inflight, revoked>>

\* the OTP service alone: the two issuing entry points and the clock
NextOtp ==
  \/ PostValidateCredentials
  \/ PostSendOtp
  \/ Tick

SpecOtp == Init /\ [][NextOtp]_vars

\* the deployment the login specifications run in: config.timezone left at its
\* default, the server process in UTC
InitLogin ==
  /\ Init
  /\ timezone = "Asia/Kolkata"
  /\ processZone = "UTC"

\* the documented two-step flow, requests interleaving at finalLogin's suspension
NextConcurrent ==
  \/ PostValidateCredentials
  \/ PostFinalLogin
  \/ FinalLoginResume
  \/ Tick

SpecConcurrent == InitLogin /\ [][NextConcurrent]_vars

\* POST /api/auth/final-login, served with no other request in between
PostFinalLoginWhole ==
  /\ \E body \in FinalLoginBodies :
       Route("final_login", validateFinalLogin(body), finalLoginWhole(body))
  /\ UNCHANGED <<now, users, timezone, processZone, nodeEnv, otpTtlMinutes>>

\* POST /api/auth/login, served with no other request in between
PostLoginWhole ==
  /\ \E step \in StepsIn :
       \E b \in (IF step = "credential_validation" THEN CredentialBodies
                 ELSE IF step = "send_otp" THEN SendOtpBodies
                 ELSE IF step = "final_login" THEN FinalLoginBodies
                 ELSE {EmptyBody}) :
          LET body == [b EXCEPT !.step = step]
          IN IF step = "final_login" THEN finalLoginWhole(body) ELSE loginController(body)
  /\ UNCHANGED <<now, users, timezone, processZone, nodeEnv, otpTtlMinutes>>

\* the login entry points alone, one request at a time
NextLogin ==
  \/ PostValidateCredentials
  \/ PostSendOtp
  \/ PostFinalLoginWhole
  \/ PostLoginWhole
  \/ DeactivateUser
  \/ Tick

SpecLogin == InitLogin /\ [][NextLogin]_vars

\* the login entry points against the identity store, within one instant
NextAccounts ==
  \/ PostValidateCredentials
  \/ PostSendOtp
  \/ PostFinalLoginWhole
  \/ PostLoginWhole
  \/ DeactivateUser

SpecAccounts == InitLogin /\ [][NextAccounts]_vars

\* the session service alone
NextSession ==
  \/ CreateSession
  \/ ValidateSession
  \/ DestroySession
  \/ DestroyAllSessionsForUser
  \/ Tick

SpecSession == Init /\ [][NextSession]_vars

\* phone numbers an identity can be given
Phones == {"p1", "p9"}

\* the identity store gives an account another phone number (users.phone is UNIQUE)
ChangePhone ==
  /\ \E id \in UserIds, phone \in Phones :
       /\ users[id].phone # phone
       /\ \A other \in UserIds : users[other].phone # phone
       /\ users' = [users EXCEPT ![id].phone = phone]
  /\ response' = NoResponse
  /\ delivery' = NoDelivery
  /\ UNCHANGED <<now, timezone, processZone, nodeEnv, otpTtlMinutes, users_otps, user_sessions,
                 inflight, revoked>>

\* issuing and redeeming codes while the identity store updates phone numbers
NextSupersede ==
  \/ PostValidateCredentials
  \/ PostSendOtp
  \/ PostFinalLoginWhole
  \/ ChangePhone

SpecSupersede == InitLogin /\ [][NextSupersede]_vars

\* a writer of the store sets a code record's used flag
MarkOtpUsed ==
  /\ \E i \in DOMAIN users_otps :
       /\ ~users_otps[i].is_used
       /\ users_otps' = [users_otps EXCEPT ![i].is_used = TRUE]
  /\ response' = NoResponse
  /\ delivery' = NoDelivery
  /\ UNCHANGED <<now, users, timezone, processZone, nodeEnv, otpTtlMinutes, user_sessions,
                 inflight, revoked>>

\* faulty variant: a mismatch is counted on the row
OtpRowsAfterVerify_CountsAttempts(userId, mobile, otp) ==
  LET verdict == verifyUserOtp(userId, mobile, otp)
  IN IF verdict.reason = "otp_mismatch"
     THEN [users_otps EXCEPT ![verdict.otp_id].attempts_count = @ + 1]
     ELSE users_otps

\* users_otps after verifyUserOtp: its one statement is a select
OtpRowsAfterVerify(userId, mobile, otp) == users_otps

\* one call of verifyUserOtp; the response keeps the arguments
VerifyUserOtp ==
  /\ \E userId \in UserIds, mobile \in MobilesIn, otp \in OtpsIn :
       LET verdict == verifyUserOtp(userId, mobile, otp)
       IN /\ response' = [Resp("verify", 0, "") EXCEPT !.user_id = userId, !.otp = otp,
                                                       !.target = mobile,
                                                       !.otp_id = verdict.otp_id,
                                                       !.valid = verdict.valid,
                                                       !.reason = verdict.reason]
          /\ users_otps' = OtpRowsAfterVerify(userId, mobile, otp)
  /\ delivery' = NoDelivery
  /\ UNCHANGED <<now, users, timezone, processZone, nodeEnv, otpTtlMinutes,
                 user_sessions, inflight, revoked>>

\* the code engine: issue, verify, the used flag and the clock
NextVerify ==
  \/ PostSendOtp
  \/ MarkOtpUsed
  \/ VerifyUserOtp
  \/ Tick

SpecVerify == InitLogin /\ [][NextVerify]_vars

\* values OTP_TTL_MINUTES is configured with
TtlValues == 0..MaxTtl

\* any deployment: development or production, any TTL, any zones
InitConfig ==
  /\ InitStores
  /\ timezone \in Zones
  /\ processZone \in Zones
  /\ nodeEnv \in NodeEnvs
  /\ otpTtlMinutes \in TtlValues

\* the code engine's issuance under every configuration
SpecConfig == InitConfig /\ [][NextOtp]_vars

\* the legacy endpoint alone
NextLegacy ==
  \/ PostLoginWhole
  \/ DeactivateUser

SpecLegacy == InitLogin /\ [][NextLegacy]_vars

\* the documented two-step flow on the structured routes, one request at a time
NextFinalLogin ==
  \/ PostValidateCredentials
  \/ PostFinalLoginWhole
  \/ DeactivateUser

SpecFinalLogin == InitLogin /\ [][NextFinalLogin]_vars

\* every operation that writes a code or session record
NextRecords ==
  \/ PostValidateCredentials
  \/ PostFinalLoginWhole
  \/ DestroySession
  \/ DestroyAllSessionsForUser

SpecRecords == InitLogin /\ [][NextRecords]_vars

\* issuance by mobile, final login and the clock: where sessions come from
NextSessionOrigin ==
  \/ PostSendOtp
  \/ PostFinalLoginWhole
  \/ Tick
  \/ DeactivateUser

SpecSessionOrigin == InitLogin /\ [][NextSessionOrigin]_vars

\* verification attempts, direct and through final login, against issued codes
NextAttempts ==
  \/ PostSendOtp
  \/ VerifyUserOtp
  \/ PostFinalLoginWhole
  \/ Tick

SpecAttempts == InitLogin /\ [][NextAttempts]_vars

\* purposes createOtpForUser is called with
OtpTypes == {"LOGIN", "PASSWORD_RESET"}

\* createOtpForUser called for an identity with a purpose of the caller's
\* choice and no explicit mobile, as validateCredentials calls it
CreateOtpForUser ==
  /\ Len(users_otps) < MaxOtps
  /\ \E id \in UserIds, otpType \in OtpTypes, otpCode \in Codes :
       LET user == users[id]
           explicitMobile == Undefined
       IN /\ users_otps' = Append(users_otps, createOtpForUser(user, explicitMobile, otpType, otpCode))
          /\ response' = [Resp("issue", 0, otpType) EXCEPT !.user_id = id, !.otp = otpCode]
          /\ \E smsOutcome, emailOutcome \in DeliveryOutcomes :
               delivery' = Deliver(Or(explicitMobile, user.phone), user.email, smsOutcome, emailOutcome)
  /\ UNCHANGED <<now, users, timezone, processZone, nodeEnv, otpTtlMinutes, user_sessions,
                 inflight, revoked>>

\* codes of either purpose against final login
NextPurpose ==
  \/ CreateOtpForUser
  \/ PostFinalLoginWhole

SpecPurpose == InitLogin /\ [][NextPurpose]_vars

\* the mobile flow alone: a code by send-otp, then final login
NextMobileLogin ==
  \/ PostSendOtp
  \/ PostFinalLoginWhole

SpecMobileLogin == InitLogin /\ [][NextMobileLogin]_vars

\* sendOtp up to the point where createOtpForUser awaits its insert: the code
\* and the expiry are already computed
sendOtpStart(body) ==
  LET user == findUserByMobileAndRole(body.mobile, body.role)
  IN IF ~isUserActive(user)
     THEN Answer(errorResponse("send_otp", 401, "Invalid user credentials", user, ""))
     ELSE /\ Len(inflight) < MaxInflight
          /\ \E otpCode \in Codes :
               inflight' = Append(inflight,
                 [op |-> "send_otp", message |-> "OTP sent", user |-> user,
                  mobile |-> body.mobile, otp_id |-> 0,
                  row |-> createOtpForUser(user, body.mobile, "LOGIN", otpCode)])
          /\ response' = NoResponse
          /\ delivery' = NoDelivery
          /\ UNCHANGED <<users_otps, user_sessions, revoked>>

\* POST /api/auth/send-otp, up to createOtpForUser's insert
PostSendOtpStart ==
  /\ \E body \in SendOtpBodies : Route("send_otp", validateSendOtp(body), sendOtpStart(body))
  /\ UNCHANGED <<now, users, timezone, processZone, nodeEnv, otpTtlMinutes>>

\* the insert of a call in flight reaches the table
CreateOtpInsert ==
  /\ Len(users_otps) < MaxOtps
  /\ \E i \in DOMAIN inflight :
       /\ inflight[i].otp_id = 0
       /\ users_otps' = Append(users_otps, inflight[i].row)
       /\ inflight' = [inflight EXCEPT ![i].otp_id = Len(users_otps) + 1]
  /\ response' = NoResponse
  /\ delivery' = NoDelivery
  /\ UNCHANGED <<now, users, timezone, processZone, nodeEnv, otpTtlMinutes, user_sessions, revoked>>

\* a call whose insert is done tries its deliveries, returns, and the handler answers
CreateOtpReturn ==
  /\ \E i \in DOMAIN inflight :
       LET req == inflight[i]
       IN /\ req.otp_id # 0
          /\ inflight' = SubSeq(inflight, 1, i - 1) \o SubSeq(inflight, i + 1, Len(inflight))
          /\ response' = successResponse(req.op, 200, req.message, req.user, req.row.otp_code,
                                          req.otp_id, 0)
          /\ \E smsOutcome, emailOutcome \in DeliveryOutcomes :
               delivery' = Deliver(Or(req.mobile, req.user.phone), req.user.email,
                                   smsOutcome, emailOutcome)
  /\ UNCHANGED <<now, users, timezone, processZone, nodeEnv, otpTtlMinutes, users_otps,
                 user_sessions, revoked>>

\* send-otp requests interleaving at createOtpForUser's suspension points
NextIssue ==
  \/ PostSendOtpStart
  \/ CreateOtpInsert
  \/ CreateOtpReturn
  \/ Tick

SpecIssue == InitLogin /\ [][NextIssue]_vars

\* validateCredentials up to the point where createOtpForUser awaits its insert
validateCredentialsStart(body) ==
  LET user == findUserByEmailAndRole(body.email, body.role)
  IN IF ~isUserActive(user)
     THEN Answer(errorResponse("credential_validation", 401, "Invalid user credentials", user, ""))
     ELSE IF ~verifyPassword(body.password, user.password_hash)
     THEN Answer(errorResponse("credential_validation", 401, "Invalid user credentials", user, ""))
     ELSE /\ Len(inflight) < MaxInflight
          /\ \E otpCode \in Codes :
               inflight' = Append(inflight,
                 [op |-> "credential_validation", message |-> "Valid details. OTP sent",
                  user |-> user, mobile |-> Undefined, otp_id |-> 0,
                  row |-> createOtpForUser(user, Undefined, "LOGIN", otpCode)])
          /\ response' = NoResponse
          /\ delivery' = NoDelivery
          /\ UNCHANGED <<users_otps, user_sessions, revoked>>

\* POST /api/auth/validate-credentials, up to createOtpForUser's insert
PostValidateCredentialsStart ==
  /\ \E body \in CredentialBodies :
       Route("credential_validation", validateCredentialValidation(body),
             validateCredentialsStart(body))
  /\ UNCHANGED <<now, users, timezone, processZone, nodeEnv, otpTtlMinutes>>

\* faulty variant: the deliveries are started before the insert is awaited
CreateOtpInsertFails_StillDelivers ==
  /\ \E i \in DOMAIN inflight :
       LET req == inflight[i]
       IN /\ req.otp_id = 0
          /\ inflight' = SubSeq(inflight, 1, i - 1) \o SubSeq(inflight, i + 1, Len(inflight))
          /\ response' = errorResponse(req.op, 500, "Internal server error", req.user, "")
          /\ \E smsOutcome, emailOutcome \in DeliveryOutcomes :
               delivery' = Deliver(Or(req.mobile, req.user.phone), req.user.email,
                                   smsOutcome, emailOutcome)
  /\ UNCHANGED <<now, users, timezone, processZone, nodeEnv, otpTtlMinutes, users_otps,
                 user_sessions, revoked>>

\* the insert of a call in flight is rejected by the store: createOtpForUser
\* throws and the handler's catch answers
CreateOtpInsertFails ==
  /\ \E i \in DOMAIN inflight :
       LET req == inflight[i]
       IN /\ req.otp_id = 0
          /\ inflight' = SubSeq(inflight, 1, i - 1) \o SubSeq(inflight, i + 1, Len(inflight))
          /\ response' = errorResponse(req.op, 500, "Internal server error", req.user, "")
  /\ delivery' = NoDelivery
  /\ UNCHANGED <<now, users, timezone, processZone, nodeEnv, otpTtlMinutes, users_otps,
                 user_sessions, revoked>>

\* issuance step by step, with a store that may reject the insert
NextPersist ==
  \/ PostValidateCredentialsStart
  \/ CreateOtpInsert
  \/ CreateOtpInsertFails
  \/ CreateOtpReturn

SpecPersist == InitLogin /\ [][NextPersist]_vars

\* the legacy endpoint alone, a final login suspended at its verification
NextDispatch ==
  \/ PostLogin
  \/ FinalLoginResume

SpecDispatch == InitLogin /\ [][NextDispatch]_vars

(***************************************************************************)
(* Properties                                                              *)
(***************************************************************************)
LoginOps == {"credential_validation", "send_otp", "final_login"}

\* the instant a session row's expires_at denotes when the service reads it
SessionExpiry(row) == PgReadTimestamp(row.expires_at)

\* the instant an OTP row's expires_at denotes when the service reads it
OtpExpiry(row) == PgReadTimestamp(row.expires_at)

\* row i is the one verifyUserOtp selects for its own user and phone
IsLatestOtp(i) ==
  /\ i \in OtpRowsFor(users_otps[i].user_id, users_otps[i].phone)
  /\ i = LatestOtp(users_otps[i].user_id, users_otps[i].phone)

\* C1: a login code is single-use: right after a final_login succeeded with a
\* code, the record it matched is marked used and verifying the same code for
\* the same user and target again fails with otp_used.
C1_SingleUse ==
  (response.op = "final_login" /\ response.status = 200) =>
    LET row == users_otps[response.otp_id]
        again == verifyUserOtp(row.user_id, row.phone, row.otp_code)
    IN row.is_used /\ ~again.valid /\ again.reason = "otp_used"

\* C2: of the concurrent final_login requests that submit the same code, at
\* most one gets past verification of a given code record (every request past
\* verification goes on to create a session without a further check).
C2_AtMostOneSession ==
  \A i, j \in DOMAIN inflight : i # j => inflight[i].otp_id # inflight[j].otp_id

\* C3: at every instant now >= expires_at, now = expires_at included, verifying
\* the exact code of an unused latest record fails with otp_expired.
C3_ExpiredAtOrAfter ==
  \A i \in DOMAIN users_otps :
    (IsLatestOtp(i) /\ ~users_otps[i].is_used /\ now >= OtpExpiry(users_otps[i])) =>
      LET verdict == verifyUserOtp(users_otps[i].user_id, users_otps[i].phone, users_otps[i].otp_code)
      IN ~verdict.valid /\ verdict.reason = "otp_expired"

\* C4: round trip: right after an issuance for a target, verifying the returned
\* code for the issued user and the same target is valid.
C4_RoundTrip ==
  (response.op \in {"credential_validation", "send_otp"} /\ response.status = 200) =>
    LET row == users_otps[Len(users_otps)]
    IN row.phone # NULL => verifyUserOtp(response.user_id, row.phone, response.otp).valid

C4_Witness ==
  /\ response.op \in {"credential_validation", "send_otp"}
  /\ response.status = 200
  /\ users_otps[Len(users_otps)].phone # NULL
  /\ users_otps[Len(users_otps)].otp_code = response.otp

\* C5: the documented two-step login completes: right after credential_validation
\* returned a code for an identity, a final_login carrying only that identity's
\* email and role and the returned code answers 'Login successful'.
C5_TwoStepLogin ==
  (response.op = "credential_validation" /\ response.status = 200) =>
    LET user == users[response.user_id]
        answer == FinalLoginAnswer([EmptyBody EXCEPT !.email = user.email, !.role = user.role,
                                                     !.otp = response.otp])
    IN answer.status = 200 /\ answer.message = "Login successful"

\* C6: validate answers valid exactly when the session exists, its active flag
\* is true and now < expires_at; otherwise the reason is not_found (no record),
\* inactive (flag false) or expired (expires_at <= now), in that order.
C6_ValidateIff ==
  response.op = "validate" =>
    LET sid == response.session_id
        exists == sid \in DOMAIN user_sessions
    IN /\ response.valid <=>
            (exists /\ user_sessions[sid].is_active /\ now < SessionExpiry(user_sessions[sid]))
       /\ ~response.valid =>
            response.reason = (IF ~exists THEN "not_found"
                               ELSE IF ~user_sessions[sid].is_active THEN "inactive"
                               ELSE "expired")

\* an active session validated at the very instant of its expiry
C6_Witness ==
  /\ response.op = "validate"
  /\ response.reason = "expired"
  /\ response.session_id \in DOMAIN user_sessions
  /\ now = SessionExpiry(user_sessions[response.session_id])

\* C7: once revoke or revokeAll has acted on a session, every later validate of
\* it fails with reason inactive, also at or after its expiry.
C7_RevokedStaysInactive ==
  (response.op = "validate" /\ response.session_id \in revoked) =>
    (~response.valid /\ response.reason = "inactive")

\* a revoked session validated at or after its expiry
C7_Witness ==
  /\ response.op = "validate"
  /\ response.session_id \in revoked
  /\ now >= SessionExpiry(user_sessions[response.session_id])

\* C8: revoke and revokeAll are idempotent and total: whatever state the session
\* is in (active, already inactive, nonexistent) the call leaves the targeted
\* sessions with active = false, creates no record and changes nothing else
\* than the targeted rows' active flag and last-activity time.
C8_RevokeIdempotent ==
  [][ /\ response'.op = "revoke" =>
           /\ Len(user_sessions') = Len(user_sessions)
           /\ \A i \in DOMAIN user_sessions :
                IF i = response'.session_id
                THEN user_sessions'[i] = [user_sessions[i] EXCEPT !.is_active = FALSE,
                                                                  !.last_activity_at = now]
                ELSE user_sessions'[i] = user_sessions[i]
      /\ response'.op = "revokeAll" =>
           /\ Len(user_sessions') = Len(user_sessions)
           /\ \A i \in DOMAIN user_sessions :
                IF user_sessions[i].user_id = response'.user_id
                THEN user_sessions'[i] = [user_sessions[i] EXCEPT !.is_active = FALSE,
                                                                  !.last_activity_at = now]
                ELSE user_sessions'[i] = user_sessions[i] ]_vars

\* a second revoke of a session that an earlier revoke made inactive
C8_Witness ==
  /\ response.op = "revoke"
  /\ response.reason = "was_inactive"
  /\ response.session_id \in revoked
  /\ ~user_sessions[response.session_id].is_active

\* C9: an unrevoked session created at instant T (its last-activity time) with
\* a TTL of ttlHours validates as valid at every now < T + ttlHours and as
\* invalid at every now >= T + ttlHours, whatever the configured zone.
C9_SessionExpiry ==
  \A sid \in DOMAIN user_sessions :
    user_sessions[sid].is_active =>
      (validateSession(sid).valid <=>
         now < user_sessions[sid].last_activity_at + ttlHours * UnitTicks("hours"))

\* C10: a login request that resolves to an identity whose active flag is not
\* true is answered 401 'Invalid user credentials', whatever password or code
\* it carries, and neither a code nor a session is written.
C10_InactiveRejected ==
  [][ (/\ response'.op \in LoginOps
       /\ response'.user_id \in UserIds
       /\ ~users'[response'.user_id].is_active)
      => (/\ response'.status = 401
          /\ response'.message = "Invalid user credentials"
          /\ users_otps' = users_otps
          /\ user_sessions' = user_sessions) ]_vars

\* final_login rejected for a deactivated identity while a code that would
\* verify is on record for it
C10_Witness ==
  /\ response.op = "final_login"
  /\ response.status = 401
  /\ response.user_id \in UserIds
  /\ ~users[response.user_id].is_active
  /\ \E o \in OtpsIn :
       verifyUserOtp(response.user_id, users[response.user_id].phone, o).valid

\* the LOGIN code records of a user
LoginOtpsOf(userId) ==
  {i \in DOMAIN users_otps : users_otps[i].user_id = userId /\ users_otps[i].otp_type = "LOGIN"}

\* C11: only the most recently created LOGIN code record of a user is eligible:
\* the record a successful final_login matched is the newest one of that user,
\* whatever targets the records were issued for and whatever email/mobile the
\* request carried.
C11_OnlyLatestEligible ==
  (response.op = "final_login" /\ response.status = 200) =>
    \A j \in LoginOtpsOf(response.user_id) : j <= response.otp_id

\* the reason the fixed order of checks gives for the record verifyUserOtp selects
FirstFailingCheck(row, otp) ==
  IF row.is_used THEN "otp_used"
  ELSE IF now > OtpExpiry(row) THEN "otp_expired"
  ELSE IF Trim(row.otp_code) # Trim(otp) THEN "otp_mismatch"
  ELSE ""

\* C12: verify reports the first failing check in the order: no record for
\* (user, target, LOGIN) gives otp_not_found, then used flag gives otp_used,
\* then past expiry gives otp_expired, then a differing code gives
\* otp_mismatch, and it is valid only when all four checks pass; a final_login
\* that reaches verification for a user without any code record is answered
\* 'Invalid OTP' with otp_not_found.
C12_FirstFailingCheck ==
  /\ response.op = "verify" =>
       LET rows == OtpRowsFor(response.user_id, response.target)
       IN /\ response.reason =
               (IF rows = {} THEN "otp_not_found"
                ELSE FirstFailingCheck(users_otps[LatestOtp(response.user_id, response.target)],
                                       response.otp))
          /\ response.valid <=> (response.reason = "")
  /\ \A body \in FinalLoginBodies :
       LET user == FinalLoginUser(body)
       IN (/\ Len(validateFinalLogin(body)) = 0
           /\ isUserActive(user)
           /\ ~Falsy(Or(body.mobile, user.phone))
           /\ LoginOtpsOf(user.user_id) = {})
          => (/\ FinalLoginAnswer(body).status = 401
              /\ FinalLoginAnswer(body).message = "Invalid OTP"
              /\ FinalLoginAnswer(body).reason = "otp_not_found")

\* a used and expired record verified with a wrong code
C12_Witness ==
  /\ response.op = "verify"
  /\ response.reason = "otp_used"
  /\ response.otp_id \in DOMAIN users_otps
  /\ users_otps[response.otp_id].is_used
  /\ now > OtpExpiry(users_otps[response.otp_id])
  /\ Trim(users_otps[response.otp_id].otp_code) # Trim(response.otp)

\* what of a response reaches the client: the status and the body
ResponseBody(r) == [status |-> r.status, message |-> r.message, otp |-> r.otp,
                    session_id |-> r.session_id]

\* C13: credential_validation failures are undifferentiated: whether no identity
\* matched, the identity is inactive or the password did not match, the client
\* gets the same status 401 and the same body.
C13_Undifferentiated ==
  (/\ response.op = "credential_validation"
   /\ response.status # 200
   /\ response.message # "Validation failed")
  => ResponseBody(response) =
       ResponseBody(Resp("credential_validation", 401, "Invalid user credentials"))

\* credential_validation refused for an identity that exists but is inactive,
\* after it was refused or accepted for others
C13_Witness ==
  /\ response.op = "credential_validation"
  /\ response.status = 401
  /\ response.user_id \in UserIds
  /\ ~users[response.user_id].is_active

\* C14: the generated code is in the body of a successful issuance response
\* (credential_validation, send_otp) only in development mode; in a production
\* deployment the body never contains it.
C14_NoCodeInProduction ==
  (/\ response.op \in {"credential_validation", "send_otp"}
   /\ response.status = 200
   /\ nodeEnv = "production")
  => ResponseBody(response).otp = Undefined

\* C15: delivery failure never fails issuance and is isolated per channel:
\* whatever the SMS and email outcomes, the operation that tried a delivery has
\* persisted the code record and answers 200 with the code, and every channel
\* whose target is present was tried, the other channel's failure
\* notwithstanding.
C15_DeliveryIsolated ==
  delivery # NoDelivery =>
    /\ response.op \in {"credential_validation", "send_otp"}
    /\ response.status = 200
    /\ Len(users_otps) > 0
    /\ LET row == users_otps[Len(users_otps)]
       IN /\ row.user_id = response.user_id
          /\ row.otp_code = response.otp
          /\ row.phone # NULL => delivery.sms \in DeliveryOutcomes
          /\ row.email # NULL => delivery.email \in DeliveryOutcomes

\* an issuance whose SMS failed and whose email went out
C15_Witness ==
  /\ response.status = 200
  /\ delivery.sms = "failed"
  /\ delivery.email = "sent"
  /\ users_otps[Len(users_otps)].otp_code = response.otp

\* the request was turned away by validation: nothing looked up, nothing written
RejectedByValidation ==
  /\ response'.status = 400
  /\ response'.message = "Validation failed"
  /\ response'.user_id = "none"
  /\ users_otps' = users_otps
  /\ user_sessions' = user_sessions

\* C16: at every entry point, the legacy dispatcher included, a request with a
\* missing or malformed required field is rejected with a validation error
\* before any lookup, issuance, verification or session creation.
C16_ValidatedBeforeLookup ==
  [][ /\ \A body \in CredentialBodies :
           (/\ Len(validateCredentialValidation(body)) > 0
            /\ \/ Route("credential_validation", validateCredentialValidation(body),
                         validateCredentials(body))
               \/ loginController([body EXCEPT !.step = "credential_validation"]))
           => RejectedByValidation
      /\ \A body \in SendOtpBodies :
           (/\ Len(validateSendOtp(body)) > 0
            /\ \/ Route("send_otp", validateSendOtp(body), sendOtp(body))
               \/ loginController([body EXCEPT !.step = "send_otp"]))
           => RejectedByValidation
      /\ \A body \in FinalLoginBodies :
           (/\ Len(validateFinalLogin(body)) > 0
            /\ \/ Route("final_login", validateFinalLogin(body), finalLoginWhole(body))
               \/ finalLoginWhole([body EXCEPT !.step = "final_login"]))
           => RejectedByValidation ]_vars

MobileRequired(r) ==
  /\ r.op = "final_login"
  /\ r.status = 400
  /\ r.message = "Mobile number is required for OTP verification"

\* C17: final_login for an active identity answers 400 'Mobile number is
\* required for OTP verification' exactly when the request carries no mobile
\* and the identity has no stored phone; that answer comes without a
\* verification verdict and without a session being created.
C17_MobileRequiredIff ==
  [][ \A body \in FinalLoginBodies :
        (/\ response'.op = "final_login"
         /\ isUserActive(FinalLoginUser(body))
         /\ finalLoginWhole(body))
        => /\ MobileRequired(response') <=>
                (Falsy(body.mobile) /\ Falsy(FinalLoginUser(body).phone))
           /\ MobileRequired(response') =>
                (/\ response'.reason = ""
                 /\ response'.otp_id = 0
                 /\ user_sessions' = user_sessions
                 /\ users_otps' = users_otps) ]_vars

\* final_login answered MobileRequired for an active identity without a phone
\* while a code record of that identity is on file
C17_Witness ==
  /\ MobileRequired(response)
  /\ response.user_id \in UserIds
  /\ users[response.user_id].is_active
  /\ users[response.user_id].phone = NULL
  /\ LoginOtpsOf(response.user_id) # {}

\* C18: the legacy dispatcher is a closed match over the three step names: a
\* request whose step is missing or is none of credential_validation, send_otp,
\* final_login is answered with an explicit 400, whatever else its body
\* carries, and no code or session record changes.
C18_ClosedDispatch ==
  [][ \A step \in StepsIn \ LoginOps :
        \A b \in {EmptyBody,
                  [EmptyBody EXCEPT !.login_type = "email_password", !.email = "a@x.com",
                                    !.password = "pw1", !.role = "USER", !.mobile = "p1",
                                    !.otp = "1000"]} :
          loginController([b EXCEPT !.step = step])
          => /\ response'.status = 400
             /\ response'.message = (IF Falsy(step) THEN "step is required"
                                     ELSE "Unknown step: " \o step)
             /\ response'.user_id = "none"
             /\ users_otps' = users_otps
             /\ user_sessions' = user_sessions
             /\ inflight' = inflight ]_vars

\* an unknown step answered while code and session records are on file
C18_Witness ==
  /\ response.op = "login"
  /\ response.status = 400
  /\ response.message = "Unknown step: bogus"
  /\ Len(users_otps) > 0
  /\ Len(user_sessions) > 0

\* C19: no operation removes a record: every step keeps every code record as
\* it is and every session record under its id with its user, token, creation
\* and expiry; a revocation changes the active flag and last-activity time only.
C19_NeverDeleted ==
  [][ /\ Len(users_otps') >= Len(users_otps)
      /\ \A i \in DOMAIN users_otps : users_otps'[i] = users_otps[i]
      /\ Len(user_sessions') >= Len(user_sessions)
      /\ \A i \in DOMAIN user_sessions :
           \E active \in BOOLEAN, at \in 0..now :
             user_sessions'[i] = [user_sessions[i] EXCEPT !.is_active = active,
                                                           !.last_activity_at = at] ]_vars

\* a superseded code and a revoked session, both still on file
C19_Witness ==
  /\ \E i, j \in DOMAIN users_otps :
       i < j /\ users_otps[i].user_id = users_otps[j].user_id
  /\ \E sid \in revoked : sid \in DOMAIN user_sessions /\ ~user_sessions[sid].is_active

\* C20: a code issued at instant T under a configured TTL of m minutes, m >= 0,
\* is stored with the expiry T + m minutes whatever the configured zone, and
\* the expiry comparison of verify gives the same outcome in every zone.
C20_OtpExpiry ==
  /\ (response.op \in {"credential_validation", "send_otp"} /\ response.status = 200) =>
       OtpExpiry(users_otps[Len(users_otps)]) = now + otpTtlMinutes * UnitTicks("minutes")
  /\ \A i \in DOMAIN users_otps : \A zone \in Zones :
       MomentIsAfter(MomentTz(now, zone), MomentTz(OtpExpiry(users_otps[i]), zone))
       <=> MomentIsAfter(MomentTz(now, timezone),
                         MomentTz(OtpExpiry(users_otps[i]), timezone))

\* C21: a session row appears only in a final_login that answers 200 for an
\* active user U, and the code record it matched belongs to U, is the latest
\* LOGIN record for U and the target, is unused, is not past its expiry and
\* carries the submitted code; the new row's user id and token claims are U's.
C21_SessionOrigin ==
  [][Len(user_sessions') > Len(user_sessions) =>
       /\ Len(user_sessions') = Len(user_sessions) + 1
       /\ response'.op = "final_login"
       /\ response'.status = 200
       /\ response'.user_id \in UserIds
       /\ response'.otp_id \in DOMAIN users_otps
       /\ LET session == user_sessions'[Len(user_sessions')]
              U == response'.user_id
              row == users_otps[response'.otp_id]
          IN /\ session.user_id = U
             /\ session.jwt_token.user_id = U
             /\ session.jwt_token.email = users[U].email
             /\ session.jwt_token.role = users[U].role
             /\ users[U].is_active
             /\ row.user_id = U
             /\ row.otp_type = "LOGIN"
             /\ ~row.is_used
             /\ now <= OtpExpiry(row)
             /\ \A j \in DOMAIN users_otps :
                   (users_otps[j].user_id = U /\ users_otps[j].phone = row.phone
                      /\ users_otps[j].otp_type = "LOGIN") => j <= response'.otp_id
             /\ \E body \in FinalLoginBodies :
                   /\ validateFinalLogin(body) = <<>>
                   /\ FinalLoginUser(body) = users[U]
                   /\ Or(body.mobile, users[U].phone) = row.phone
                   /\ Trim(body.otp) = Trim(row.otp_code)
                   /\ finalLoginWhole(body)]_vars

C21_Witness ==
  /\ response.op = "final_login"
  /\ response.status = 200
  /\ user_sessions[response.session_id].user_id = response.user_id
  /\ users_otps[response.otp_id].user_id = response.user_id
  /\ \E i \in DOMAIN users_otps : i # response.otp_id

\* C22: verifyUserOtp is read-only: a direct verification or a final_login that
\* does not answer 200, whatever its verdict, leaves every code record as it
\* was; after it every attempt counter is 0 and the exact code of each latest,
\* unused record not past its expiry still verifies.
C22_VerifyReadOnly ==
  /\ [][(response'.op = "verify" \/ (response'.op = "final_login" /\ response'.status # 200)) =>
          users_otps' = users_otps]_vars
  /\ []((response.op = "verify" \/ (response.op = "final_login" /\ response.status # 200)) =>
          /\ \A i \in DOMAIN users_otps : users_otps[i].attempts_count = 0
          /\ \A i \in DOMAIN users_otps :
               (IsLatestOtp(i) /\ ~users_otps[i].is_used /\ now <= OtpExpiry(users_otps[i])) =>
                 verifyUserOtp(users_otps[i].user_id, users_otps[i].phone,
                               users_otps[i].otp_code).valid)

\* a wrong code was rejected while the right one was still good
C22_Witness ==
  /\ response.op = "verify"
  /\ ~response.valid
  /\ response.reason = "otp_mismatch"
  /\ ~users_otps[response.otp_id].is_used
  /\ now <= OtpExpiry(users_otps[response.otp_id])
  /\ verifyUserOtp(response.user_id, response.target, users_otps[response.otp_id].otp_code).valid

\* C23: validateSession is read-only: whatever it answers (valid, not_found,
\* inactive, expired) every session row is as it was before; a row's
\* last_activity_at changes only in destroySession and destroyAllSessionsForUser.
C23_ValidateReadOnly ==
  [][ /\ response'.op = "validate" => user_sessions' = user_sessions
      /\ \A i \in DOMAIN user_sessions :
           (i \in DOMAIN user_sessions'
              /\ user_sessions'[i].last_activity_at # user_sessions[i].last_activity_at) =>
             response'.op \in {"revoke", "revokeAll"} ]_vars

\* a session found valid some time after it was created
C23_Witness ==
  /\ response.op = "validate"
  /\ response.valid
  /\ user_sessions[response.session_id].is_active
  /\ user_sessions[response.session_id].last_activity_at < now

\* C24: each session operation changes only the sessions it targets: create
\* appends exactly one active row with a session id no existing row has and
\* leaves every existing row as it was, however many active sessions the user
\* already has; revoke leaves every row but the one named as it was; revokeAll
\* clears the active flag on exactly the rows owned by the user and leaves the
\* rows of other users as they were.
C24_OnlyTargetsChange ==
  [][ /\ response'.op = "create_session" =>
           /\ Len(user_sessions') = Len(user_sessions) + 1
           /\ \A i \in DOMAIN user_sessions : user_sessions'[i] = user_sessions[i]
           /\ LET new == user_sessions'[Len(user_sessions')]
              IN /\ new.is_active
                 /\ new.user_id = response'.user_id
                 /\ new.session_id = response'.session_id
                 /\ \A i \in DOMAIN user_sessions : user_sessions[i].session_id # new.session_id
      /\ response'.op = "revoke" =>
           /\ DOMAIN user_sessions' = DOMAIN user_sessions
           /\ \A i \in DOMAIN user_sessions :
                user_sessions[i].session_id # response'.session_id =>
                  user_sessions'[i] = user_sessions[i]
      /\ response'.op = "revokeAll" =>
           /\ DOMAIN user_sessions' = DOMAIN user_sessions
           /\ \A i \in DOMAIN user_sessions :
                IF user_sessions[i].user_id = response'.user_id
                THEN ~user_sessions'[i].is_active
                ELSE user_sessions'[i] = user_sessions[i] ]_vars

\* a second active session was just created for a user who already had one
C24_Witness ==
  /\ response.op = "create_session"
  /\ \E i \in DOMAIN user_sessions :
       /\ i # response.session_id
       /\ user_sessions[i].user_id = response.user_id
       /\ user_sessions[i].is_active
       /\ user_sessions[response.session_id].is_active

\* C25: a request that is answered with a 4xx status (validation failure,
\* Invalid user credentials, Mobile required, Invalid OTP, missing or unknown
\* step) leaves every code record and every session record as it was and
\* tries no delivery; in particular a credential_validation that fails the
\* identity or the password check issues no code.
C25_RejectedChangesNothing ==
  [][(response'.status >= 400 /\ response'.status <= 499) =>
       /\ users_otps' = users_otps
       /\ user_sessions' = user_sessions
       /\ delivery' = NoDelivery]_vars

\* a wrong password for an active identity, with a code already on record
C25_Witness ==
  /\ response.op = "credential_validation"
  /\ response.status = 401
  /\ response.user_id \in UserIds
  /\ users[response.user_id].is_active
  /\ users_otps # <<>>
  /\ delivery = NoDelivery

\* C26: purpose isolation: the record a valid verification or a successful
\* final_login matched has purpose LOGIN, and a record of another purpose does
\* not supersede the latest LOGIN record of the same user and target: that
\* record's code, while unused and not past expiry, still verifies.
C26_PurposeIsolation ==
  /\ (response.op = "final_login" /\ response.status = 200) =>
       users_otps[response.otp_id].otp_type = "LOGIN"
  /\ \A userId \in UserIds, mobile \in MobilesIn, otp \in OtpsIn :
       LET verdict == verifyUserOtp(userId, mobile, otp)
       IN verdict.valid => users_otps[verdict.otp_id].otp_type = "LOGIN"
  /\ \A i \in DOMAIN users_otps :
       LET row == users_otps[i]
       IN (/\ row.otp_type = "LOGIN"
           /\ row.phone # NULL
           /\ ~row.is_used
           /\ now <= OtpExpiry(row)
           /\ \A j \in DOMAIN users_otps :
                (j > i /\ users_otps[j].user_id = row.user_id /\ users_otps[j].phone = row.phone)
                  => users_otps[j].otp_type # "LOGIN")
          => verifyUserOtp(row.user_id, row.phone, row.otp_code).valid

\* a login with the LOGIN code after a code of another purpose and another
\* value was issued for the same user and target
C26_Witness ==
  /\ response.op = "final_login"
  /\ response.status = 200
  /\ \E j \in DOMAIN users_otps :
       /\ j > response.otp_id
       /\ users_otps[j].user_id = response.user_id
       /\ users_otps[j].phone = users_otps[response.otp_id].phone
       /\ users_otps[j].otp_type # "LOGIN"
       /\ users_otps[j].otp_code # users_otps[response.otp_id].otp_code

\* C27: final_login does not tell which step issued a code: right after
\* send_otp issued a code for the identity found by mobile and role (no
\* password involved), a final_login that names the same identity by email
\* and role and carries that code is answered 200 'Login successful', so a
\* session is reached with no credential_validation having succeeded.
C27_SendOtpCodeAccepted ==
  (response.op = "send_otp" /\ response.status = 200) =>
    LET user == users[response.user_id]
        answer == FinalLoginAnswer([EmptyBody EXCEPT !.email = user.email, !.role = user.role,
                                                     !.otp = response.otp])
    IN /\ users_otps[Len(users_otps)].phone = user.phone
       /\ answer.status = 200
       /\ answer.message = "Login successful"
       /\ answer.user_id = response.user_id
       /\ answer.otp_id = Len(users_otps)

\* a code from send_otp that an email final_login can turn into a session
C27_Witness ==
  /\ response.op = "send_otp"
  /\ response.status = 200
  /\ Len(user_sessions) < MaxSessions
  /\ \E body \in FinalLoginBodies :
       /\ body.email = users[response.user_id].email
       /\ body.otp = response.otp
       /\ validateFinalLogin(body) = <<>>
       /\ FinalLoginAnswer(body).status = 200

\* two rows of the same user, phone and LOGIN purpose, the second being the
\* latest of them, unused and not past its expiry, with no call in flight
BothIssued(i, j) ==
  /\ inflight = <<>>
  /\ i < j
  /\ users_otps[i].user_id = users_otps[j].user_id
  /\ users_otps[i].phone = users_otps[j].phone
  /\ users_otps[i].otp_type = "LOGIN"
  /\ users_otps[j].otp_type = "LOGIN"
  /\ users_otps[j].phone # NULL
  /\ \A k \in DOMAIN users_otps :
       (k > j /\ users_otps[k].user_id = users_otps[j].user_id
          /\ users_otps[k].phone = users_otps[j].phone) => users_otps[k].otp_type # "LOGIN"
  /\ ~users_otps[j].is_used
  /\ now <= OtpExpiry(users_otps[j])

\* C28 as stated: once two concurrent issue calls for the same user, target
\* and LOGIN purpose have completed, exactly one of the two codes verifies,
\* the one of the record created later; the other code is rejected.
C28_ExactlyOneCodeVerifies ==
  \A i, j \in DOMAIN users_otps :
    BothIssued(i, j) =>
      /\ verifyUserOtp(users_otps[j].user_id, users_otps[j].phone, users_otps[j].otp_code).valid
      /\ ~verifyUserOtp(users_otps[i].user_id, users_otps[i].phone, users_otps[i].otp_code).valid

\* C28: under every interleaving of two issue calls for the same user, target
\* and LOGIN purpose, each call's record is in the table when the call returns
\* and no record is changed or removed afterwards; once both have completed,
\* verification matches the record created later, and the code of the earlier
\* record is rejected as a mismatch unless the two codes are equal.
C28_LatestRecordWins ==
  /\ [][ /\ \A i \in DOMAIN users_otps :
              i \in DOMAIN users_otps' /\ users_otps'[i] = users_otps[i]
         /\ (response'.op = "send_otp" /\ response'.status = 200) =>
              /\ response'.otp_id \in DOMAIN users_otps'
              /\ users_otps'[response'.otp_id].otp_code = response'.otp
              /\ users_otps'[response'.otp_id].user_id = response'.user_id ]_vars
  /\ [](\A i, j \in DOMAIN users_otps :
          BothIssued(i, j) =>
            LET later == verifyUserOtp(users_otps[j].user_id, users_otps[j].phone,
                                       users_otps[j].otp_code)
                earlier == verifyUserOtp(users_otps[i].user_id, users_otps[i].phone,
                                         users_otps[i].otp_code)
            IN /\ later.valid
               /\ later.otp_id = j
               /\ earlier.otp_id = j
               /\ earlier.valid <=> users_otps[i].otp_code = users_otps[j].otp_code
               /\ ~earlier.valid => earlier.reason = "otp_mismatch")

\* both calls have completed; the call that began first inserted last, so the
\* record created later is the one that expires first
C28_Witness ==
  \E i, j \in DOMAIN users_otps :
    /\ BothIssued(i, j)
    /\ users_otps[i].otp_code # users_otps[j].otp_code
    /\ OtpExpiry(users_otps[j]) < OtpExpiry(users_otps[i])
    /\ response.op = "send_otp"
    /\ response.status = 200

\* the calls in flight once call i has left
WithoutCall(i) == SubSeq(inflight, 1, i - 1) \o SubSeq(inflight, i + 1, Len(inflight))

\* C29: the code record is persisted before any delivery is tried: a step that
\* tries a delivery belongs to a call whose record, with the delivered code, was
\* already in the table before the step; when the insert fails nothing is
\* delivered, nothing is stored and the request is answered 500 'Internal
\* server error'.
C29_PersistBeforeDelivery ==
  [][ /\ delivery' # NoDelivery =>
           /\ response'.status = 200
           /\ response'.otp_id \in DOMAIN users_otps
           /\ users_otps[response'.otp_id].otp_code = response'.otp
           /\ users_otps[response'.otp_id].user_id = response'.user_id
           /\ users_otps' = users_otps
      /\ (/\ \E i \in DOMAIN inflight : inflight[i].otp_id = 0 /\ inflight' = WithoutCall(i)
          /\ ~\E k \in DOMAIN inflight : inflight[k].otp_id # 0 /\ inflight' = WithoutCall(k)) =>
           /\ response'.status = 500
           /\ response'.message = "Internal server error"
      /\ response'.status = 500 => (delivery' = NoDelivery /\ users_otps' = users_otps) ]_vars

\* a failed insert answered 500 while another call's record is in the table
C29_Witness ==
  /\ response.op = "credential_validation"
  /\ response.status = 500
  /\ delivery = NoDelivery
  /\ users_otps # <<>>

\* the bodies that pass the field validation of a step
ValidCredentialBodies == {body \in CredentialBodies : validateCredentialValidation(body) = <<>>}

ValidSendOtpBodies == {body \in SendOtpBodies : validateSendOtp(body) = <<>>}

ValidFinalLoginBodies == {body \in FinalLoginBodies : validateFinalLogin(body) = <<>>}

\* C30: for every body that passes the field validation of step s, a step of
\* the program is one the legacy dispatcher makes for the body with step = s
\* exactly when it is one the structured route for s makes for the body: from
\* the same state both give the same response and the same change to the
\* code and session records.
C30_LegacyEquivalent ==
  [][ /\ \A body \in ValidCredentialBodies :
           loginController([body EXCEPT !.step = "credential_validation"])
             <=> Route("credential_validation", validateCredentialValidation(body),
                       validateCredentials(body))
      /\ \A body \in ValidSendOtpBodies :
           loginController([body EXCEPT !.step = "send_otp"])
             <=> Route("send_otp", validateSendOtp(body), sendOtp(body))
      /\ \A body \in ValidFinalLoginBodies :
           loginController([body EXCEPT !.step = "final_login"])
             <=> Route("final_login", validateFinalLogin(body), finalLogin(body)) ]_vars

\* a code issued through the legacy endpoint by a send_otp body that passes
\* the field validation
C30_Witness ==
  /\ response.op = "send_otp"
  /\ response.status = 200
  /\ users_otps # <<>>
  /\ \E body \in SendOtpBodies :
       /\ validateSendOtp(body) = <<>>
       /\ users_otps[Len(users_otps)].phone = body.mobile
       /\ findUserByMobileAndRole(body.mobile, body.role).user_id = response.user_id

\* C31: session invalidity is permanent: with the clock never going back, a
\* session that validateSession finds inactive or expired is still found
\* invalid after any create, validate, revoke, revokeAll or passing of time;
\* no step sets is_active back to true, moves expires_at or removes the row.
C31_InvalidForever ==
  [][\A sid \in DOMAIN user_sessions :
       /\ sid \in DOMAIN user_sessions'
       /\ now' >= now
       /\ user_sessions'[sid].is_active => user_sessions[sid].is_active
       /\ user_sessions'[sid].expires_at = user_sessions[sid].expires_at
       /\ ~validateSession(sid).valid => ~(validateSession(sid).valid)']_vars

\* a session found expired some time after its expiry, still flagged active,
\* with another session created since
C31_Witness ==
  /\ response.op = "validate"
  /\ ~response.valid
  /\ response.reason = "expired"
  /\ response.session_id \in DOMAIN user_sessions
  /\ user_sessions[response.session_id].is_active
  /\ now > SessionExpiry(user_sessions[response.session_id])
  /\ \E other \in DOMAIN user_sessions :
       other > response.session_id /\ validateSession(other).valid

\* C32: every session row has a creation time equal to the instant it was
\* created: created_at is not after last_activity_at, is before expires_at, and
\* expires_at is exactly the session TTL after created_at.
C32_CreatedAtIsCreation ==
  \A sid \in DOMAIN user_sessions :
    LET row == user_sessions[sid]
    IN /\ PgReadTimestamp(row.created_at) <= row.last_activity_at
       /\ row.created_at < row.expires_at
       /\ row.expires_at - row.created_at = ttlHours * UnitTicks("hours")

====
